---- MODULE Spec2Model ----
(***************************************************************************)
(* cpool: a fixed-size worker-thread pool over a bounded ring buffer of    *)
(* jobs, with an optional single-waiter future per job.                    *)
(*                                                                         *)
(* The model follows the implementation with futures (struct cpool,        *)
(* thread_func, cpool_enqueue, cpool_stop, cpool_wait, cpool_wait_future,  *)
(* cpool_destroy).  Every thread is a small program counter machine; one   *)
(* action is one step between two synchronisation points.  The pool mutex  *)
(* and each future's mutex are explicit, a condition variable is the set   *)
(* of threads whose program counter is at its cnd_wait.                    *)
(***************************************************************************)
EXTENDS Integers, Sequences, FiniteSets, TLC

\* ------------------------------------------------------------------ bounds
MaxWorkers == 2     \* cpool_create is called with nb_workers in 1..MaxWorkers
MaxCap     == 2     \* cpool_create is called with max_jobs in 1..MaxCap
MaxCalls   == 3     \* total number of cpool_enqueue calls made by the clients
MaxFutures == 2     \* number of those calls that obtain a future

Workers     == 1..MaxWorkers
Slots       == 0..(MaxCap - 1)
JobIds      == 1..MaxCalls
Producers   == {"p1", "p2"}     \* client threads calling cpool_enqueue
PoolWaiters == {"a", "b"}       \* client threads calling cpool_wait

NoThread == <<>>                \* value of a mutex nobody holds
NoJob    == 0                   \* slot content never written / NULL future
NoRet    == 0 - 1               \* cpool_enqueue has not returned yet

\* ------------------------------------------------------------------- state
VARIABLES
    nb_workers,   \* pool->nb_workers
    max_jobs,     \* pool->max_jobs
    jobs,         \* pool->jobs: ring buffer, slot -> [id, future]
    job_first,    \* pool->job_first
    job_count,    \* pool->job_count
    nb_working,   \* pool->nb_working
    stop,         \* pool->stop
    mutex,        \* holder of pool->mutex, or NoThread
    wpc,          \* worker -> position in thread_func
    wjob,         \* worker -> job_func/job_data taken from the slot
    wfut,         \* worker -> future taken from the slot
    ppc,          \* producer -> position in cpool_enqueue
    pjob,         \* producer -> func/data argument of the current call
    pfut,         \* producer -> *future of the current call (NoJob = NULL)
    nextJob,      \* number of the next cpool_enqueue call
    ret,          \* call -> return value of cpool_enqueue (NoRet before)
    outfut,       \* call -> *future as seen by the caller after return
    qpc,          \* pool waiter -> position in cpool_wait
    fstate,       \* future -> "none" | "live" | "freed"
    fflag,        \* future -> future->flag
    fmutex,       \* future -> holder of future->mutex, or NoThread
    fpc,          \* future -> position of its waiter in cpool_wait_future
    cpc,          \* position of the thread calling cpool_stop / cpool_destroy
    admitted,     \* history: jobs in order of insertion into the ring buffer
    popped,       \* history: jobs in order of removal from the ring buffer
    ran           \* history: job -> number of times its callable returned

poolVars == <<nb_workers, max_jobs, jobs, job_first, job_count, nb_working, stop, mutex>>
workVars == <<wpc, wjob, wfut>>
prodVars == <<ppc, pjob, pfut, nextJob, ret, outfut>>
futVars  == <<fstate, fflag, fmutex, fpc>>
histVars == <<admitted, popped, ran>>
vars == <<nb_workers, max_jobs, jobs, job_first, job_count, nb_working, stop, mutex,
          wpc, wjob, wfut, ppc, pjob, pfut, nextJob, ret, outfut, qpc,
          fstate, fflag, fmutex, fpc, cpc, admitted, popped, ran>>

\* --------------------------------------------------- condition variables
\* cnd_signal: unblocks one of the threads blocked on the condition variable,
\* if there is one.  The result is the set of possible new program counters.
CndSignal(pcf, waiting, woken) ==
    LET ws == {t \in DOMAIN pcf : pcf[t] = waiting}
    IN IF ws = {} THEN {pcf} ELSE {[pcf EXCEPT ![t] = woken] : t \in ws}

\* cnd_broadcast: unblocks every thread blocked on the condition variable.
CndBroadcast(pcf, waiting, woken) ==
    [t \in DOMAIN pcf |-> IF pcf[t] = waiting THEN woken ELSE pcf[t]]

\* cnd_signal(&future->cond): a future has at most one waiter.
FutCndSignal(f) ==
    IF fpc[f] = "fw_waiting" THEN [fpc EXCEPT ![f] = "fw_lock"] ELSE fpc

\* ------------------------------------------------------------------- Init
\* State after a successful cpool_create(nb_workers, max_jobs): counters are
\* zero, all nb_workers threads have been started and stand at the top of
\* thread_func.  The slots of the ring buffer are not initialised by
\* cpool_create; NoJob stands for a slot that has never been written.
Init ==
    /\ nb_workers \in 1..MaxWorkers
    /\ max_jobs \in 1..MaxCap
    /\ jobs = [s \in Slots |-> [id |-> NoJob, future |-> NoJob]]
    /\ job_first = 0
    /\ job_count = 0
    /\ nb_working = 0
    /\ stop = 0
    /\ mutex = NoThread
    /\ wpc = [i \in Workers |-> IF i <= nb_workers THEN "w_lock" ELSE "none"]
    /\ wjob = [i \in Workers |-> NoJob]
    /\ wfut = [i \in Workers |-> NoJob]
    /\ ppc = [p \in Producers |-> "idle"]
    /\ pjob = [p \in Producers |-> NoJob]
    /\ pfut = [p \in Producers |-> NoJob]
    /\ nextJob = 1
    /\ ret = [j \in JobIds |-> NoRet]
    /\ outfut = [j \in JobIds |-> NoJob]
    /\ qpc = [q \in PoolWaiters |-> "idle"]
    /\ fstate = [j \in JobIds |-> "none"]
    /\ fflag = [j \in JobIds |-> 0]
    /\ fmutex = [j \in JobIds |-> NoThread]
    /\ fpc = [j \in JobIds |-> "idle"]
    /\ cpc = "idle"
    /\ admitted = <<>>
    /\ popped = <<>>
    /\ ran = [j \in JobIds |-> 0]

\* The pool may be used by clients: cpool_destroy has not been entered.
PoolUsable == cpc \in {"idle", "s_lock", "s_set", "s_bcast", "s_bcast_enq", "stopped"}

\* ------------------------------------------------- conditions of the code
\* an empty queue does not make the worker wait
WorkerMustWait_Never == job_count < 0 /\ stop = 0

\* thread_func: condition of the wait loop on "job available"
WorkerMustWait == job_count = 0 /\ stop = 0

\* the worker returns on stop without looking at the queue
WorkerMustExit_StopOnly == stop # 0

\* thread_func: condition of the return
WorkerMustExit == stop # 0 /\ job_count = 0

\* thread_func: job_func and job_data read from the front slot
FrontJob == jobs[job_first].id

\* the future is read after job_first has moved on
FrontFuture_Next == jobs[(job_first + 1) % max_jobs].future

\* thread_func: future read from the front slot
FrontFuture == jobs[job_first].future

\* the increment of job_first is lost
PopNext_Stuck == job_first % max_jobs

\* thread_func: pool->job_first after taking the front slot
PopNext == (job_first + 1) % max_jobs

\* the popped job is not counted as being worked on
WorkingAfterPop_Uncounted == nb_working

\* thread_func: pool->nb_working after a job was taken, ++pool->nb_working
\* under the mutex
WorkingAfterPop == nb_working + 1

\* "pool idle" is signalled only when the queue is empty as well
IdleSignalDue_QueueToo(n) == n = 0 /\ job_count = 0

\* thread_func: condition of the cnd_signal on "pool idle", on the
\* decremented nb_working
IdleSignalDue(n) == n = 0

\* the queue counts as full one job too late
EnqueueMustWait_Late == job_count > max_jobs /\ stop = 0

\* cpool_enqueue: condition of the wait loop on "slot freed"
EnqueueMustWait == job_count = max_jobs /\ stop = 0

\* the new job is written without regard to job_first
PushIndex_NoFirst == job_count % max_jobs

\* cpool_enqueue: index of the slot the new job is written to
PushIndex == (job_first + job_count) % max_jobs

\* cpool_enqueue: the slot written, job_new->future = future ? *future : NULL
NewSlot(p) == [id |-> pjob[p], future |-> pfut[p]]

\* the handle of the destroyed future is left in *future
RejectedFuture_Kept(p) == pfut[p]

\* cpool_enqueue: *future after a rejected call
RejectedFuture(p) == NoJob

\* only the queue is looked at, not the running workers
WaitPending_QueueOnly == job_count > 0

\* cpool_wait: condition of the wait loop on "pool idle"
WaitPending == nb_working > 0 \/ job_count > 0

\* the future's mutex is still held when the worker goes on
FutureUnlocked_Kept(f) == fmutex

\* thread_func: mtx_unlock(&future->mutex)
FutureUnlocked(f) == [fmutex EXCEPT ![f] = NoThread]

\* cpool_wait_future: condition of the wait loop on the future
FutureNotDone(f) == fflag[f] = 0

\* ------------------------------------------------------------ thread_func
\* mtx_lock(&pool->mutex) at the top of the loop, and the re-acquisition of
\* the mutex inside cnd_wait after a wakeup.
W_Lock(i) ==
    /\ wpc[i] = "w_lock"
    /\ mutex = NoThread
    /\ mutex' = <<"w", i>>
    /\ wpc' = [wpc EXCEPT ![i] = "w_check"]
    /\ UNCHANGED <<nb_workers, max_jobs, jobs, job_first, job_count, nb_working, stop>>
    /\ UNCHANGED <<wjob, wfut, prodVars, qpc, futVars, cpc, histVars>>

\* while (job_count == 0 && !stop) cnd_wait(&pool->cond, &pool->mutex);
W_Wait(i) ==
    /\ wpc[i] = "w_check"
    /\ WorkerMustWait
    /\ mutex' = NoThread
    /\ wpc' = [wpc EXCEPT ![i] = "w_waiting"]
    /\ UNCHANGED <<nb_workers, max_jobs, jobs, job_first, job_count, nb_working, stop>>
    /\ UNCHANGED <<wjob, wfut, prodVars, qpc, futVars, cpc, histVars>>

\* if (stop && job_count == 0) { mtx_unlock; return 0; }
W_Exit(i) ==
    /\ wpc[i] = "w_check"
    /\ ~WorkerMustWait
    /\ WorkerMustExit
    /\ mutex' = NoThread
    /\ wpc' = [wpc EXCEPT ![i] = "exited"]
    /\ UNCHANGED <<nb_workers, max_jobs, jobs, job_first, job_count, nb_working, stop>>
    /\ UNCHANGED <<wjob, wfut, prodVars, qpc, futVars, cpc, histVars>>

\* get a job from front; job_first, job_count, nb_working; mtx_unlock
W_Pop(i) ==
    /\ wpc[i] = "w_check"
    /\ ~WorkerMustWait
    /\ ~WorkerMustExit
    /\ wjob' = [wjob EXCEPT ![i] = FrontJob]
    /\ wfut' = [wfut EXCEPT ![i] = FrontFuture]
    /\ job_first' = PopNext
    /\ job_count' = job_count - 1
    /\ nb_working' = WorkingAfterPop
    /\ mutex' = NoThread
    /\ wpc' = [wpc EXCEPT ![i] = "w_signal_enq"]
    /\ popped' = Append(popped, FrontJob)
    /\ UNCHANGED <<nb_workers, max_jobs, jobs, stop>>
    /\ UNCHANGED <<prodVars, qpc, futVars, cpc, admitted, ran>>

\* cnd_signal(&pool->cond_enqueue), after the unlock
W_SignalEnqueue(i) ==
    /\ wpc[i] = "w_signal_enq"
    /\ ppc' \in CndSignal(ppc, "e_waiting", "e_lock")
    /\ wpc' = [wpc EXCEPT ![i] = "w_run"]
    /\ UNCHANGED <<poolVars, wjob, wfut, pjob, pfut, nextJob, ret, outfut>>
    /\ UNCHANGED <<qpc, futVars, cpc, histVars>>

\* job_func(job_data): the callable runs and returns
W_Run(i) ==
    /\ wpc[i] = "w_run"
    /\ ran' = [ran EXCEPT ![wjob[i]] = @ + 1]
    /\ wpc' = [wpc EXCEPT ![i] = IF wfut[i] # NoJob THEN "w_fut_lock" ELSE "w_dec_lock"]
    /\ UNCHANGED <<poolVars, wjob, wfut, prodVars, qpc, futVars, cpc, admitted, popped>>

\* if (future) mtx_lock(&future->mutex)
W_FutLock(i) ==
    /\ wpc[i] = "w_fut_lock"
    /\ fmutex[wfut[i]] = NoThread
    /\ fmutex' = [fmutex EXCEPT ![wfut[i]] = <<"w", i>>]
    /\ wpc' = [wpc EXCEPT ![i] = "w_fut_set"]
    /\ UNCHANGED <<poolVars, wjob, wfut, prodVars, qpc, fstate, fflag, fpc, cpc, histVars>>

\* future->flag = 1; mtx_unlock(&future->mutex)
W_FutSet(i) ==
    /\ wpc[i] = "w_fut_set"
    /\ fflag' = [fflag EXCEPT ![wfut[i]] = 1]
    /\ fmutex' = FutureUnlocked(wfut[i])
    /\ wpc' = [wpc EXCEPT ![i] = "w_fut_signal"]
    /\ UNCHANGED <<poolVars, wjob, wfut, prodVars, qpc, fstate, fpc, cpc, histVars>>

\* cnd_signal(&future->cond), after the unlock.  The waiter may already have
\* seen the flag and destroyed and freed the future: the call then works on
\* a destroyed condition variable in freed memory, which is undefined; the
\* thread either gets through the call or never returns from it.

W_FutSignal(i) ==
    /\ wpc[i] = "w_fut_signal"
    /\ \/ /\ fstate[wfut[i]] = "live"
          /\ fpc' = FutCndSignal(wfut[i])
          /\ wpc' = [wpc EXCEPT ![i] = "w_dec_lock"]
       \/ /\ fstate[wfut[i]] = "freed"
          /\ fpc' = fpc
          /\ wpc' \in {[wpc EXCEPT ![i] = "w_dec_lock"], [wpc EXCEPT ![i] = "w_fault"]}
    /\ UNCHANGED <<poolVars, wjob, wfut, prodVars, qpc, fstate, fflag, fmutex, cpc, histVars>>

\* mtx_lock(&pool->mutex) before the decrement
W_DecLock(i) ==
    /\ wpc[i] = "w_dec_lock"
    /\ mutex = NoThread
    /\ mutex' = <<"w", i>>
    /\ wpc' = [wpc EXCEPT ![i] = "w_dec"]
    /\ UNCHANGED <<nb_workers, max_jobs, jobs, job_first, job_count, nb_working, stop>>
    /\ UNCHANGED <<wjob, wfut, prodVars, qpc, futVars, cpc, histVars>>

\* if (--pool->nb_working == 0) cnd_signal(&pool->cond_idle); mtx_unlock
W_Dec(i) ==
    /\ wpc[i] = "w_dec"
    /\ nb_working' = nb_working - 1
    /\ IF IdleSignalDue(nb_working')
          THEN qpc' \in CndSignal(qpc, "pw_waiting", "pw_lock")
          ELSE qpc' = qpc
    /\ mutex' = NoThread
    /\ wpc' = [wpc EXCEPT ![i] = "w_lock"]
    /\ UNCHANGED <<nb_workers, max_jobs, jobs, job_first, job_count, stop>>
    /\ wjob' = [wjob EXCEPT ![i] = NoJob]
    /\ wfut' = [wfut EXCEPT ![i] = NoJob]
    /\ UNCHANGED <<prodVars, futVars, cpc, histVars>>

\* ---------------------------------------------------------- cpool_enqueue
\* A client enters cpool_enqueue with future == NULL: no future is created.
E_Call(p) ==
    /\ ppc[p] = "idle"
    /\ PoolUsable
    /\ nextJob <= MaxCalls
    /\ pfut' = [pfut EXCEPT ![p] = NoJob]
    /\ pjob' = [pjob EXCEPT ![p] = nextJob]
    /\ nextJob' = nextJob + 1
    /\ ppc' = [ppc EXCEPT ![p] = "e_lock"]
    /\ UNCHANGED <<poolVars, workVars, ret, outfut, qpc, futVars, cpc, histVars>>

\* A client enters cpool_enqueue with a future pointer:
\* *future = cpool_future_create(), which yields NULL when it fails.
E_CallFuture(p) ==
    /\ ppc[p] = "idle"
    /\ PoolUsable
    /\ nextJob <= MaxCalls
    /\ Cardinality({j \in JobIds : fstate[j] # "none"}) < MaxFutures
    /\ \E created \in BOOLEAN :
          /\ pfut' = [pfut EXCEPT ![p] = IF created THEN nextJob ELSE NoJob]
          /\ fstate' = [fstate EXCEPT ![nextJob] = IF created THEN "live" ELSE "none"]
    /\ pjob' = [pjob EXCEPT ![p] = nextJob]
    /\ nextJob' = nextJob + 1
    /\ ppc' = [ppc EXCEPT ![p] = "e_lock"]
    /\ UNCHANGED <<poolVars, workVars, ret, outfut, qpc, fflag, fmutex, fpc, cpc, histVars>>

\* mtx_lock(&pool->mutex), and the re-acquisition inside cnd_wait
E_Lock(p) ==
    /\ ppc[p] = "e_lock"
    /\ mutex = NoThread
    /\ mutex' = <<"p", p>>
    /\ ppc' = [ppc EXCEPT ![p] = "e_check"]
    /\ UNCHANGED <<nb_workers, max_jobs, jobs, job_first, job_count, nb_working, stop>>
    /\ UNCHANGED <<workVars, pjob, pfut, nextJob, ret, outfut, qpc, futVars, cpc, histVars>>

\* while (job_count == max_jobs && !stop) cnd_wait(&pool->cond_enqueue, &pool->mutex);
E_Wait(p) ==
    /\ ppc[p] = "e_check"
    /\ EnqueueMustWait
    /\ mutex' = NoThread
    /\ ppc' = [ppc EXCEPT ![p] = "e_waiting"]
    /\ UNCHANGED <<nb_workers, max_jobs, jobs, job_first, job_count, nb_working, stop>>
    /\ UNCHANGED <<workVars, pjob, pfut, nextJob, ret, outfut, qpc, futVars, cpc, histVars>>

\* if (stop) { mtx_unlock; if (future && *future) { destroy; *future = NULL; } return 1; }
E_Reject(p) ==
    /\ ppc[p] = "e_check"
    /\ ~EnqueueMustWait
    /\ stop # 0
    /\ mutex' = NoThread
    /\ fstate' = IF pfut[p] # NoJob THEN [fstate EXCEPT ![pfut[p]] = "freed"] ELSE fstate
    /\ pfut' = [pfut EXCEPT ![p] = RejectedFuture(p)]
    /\ outfut' = [outfut EXCEPT ![pjob[p]] = RejectedFuture(p)]
    /\ ret' = [ret EXCEPT ![pjob[p]] = 1]
    /\ ppc' = [ppc EXCEPT ![p] = "idle"]
    /\ UNCHANGED <<nb_workers, max_jobs, jobs, job_first, job_count, nb_working, stop>>
    /\ pjob' = [pjob EXCEPT ![p] = NoJob]
    /\ UNCHANGED <<workVars, nextJob, qpc, fflag, fmutex, fpc, cpc, histVars>>

\* push back work at (job_first + job_count) % max_jobs; job_count += 1; mtx_unlock
E_Push(p) ==
    /\ ppc[p] = "e_check"
    /\ ~EnqueueMustWait
    /\ stop = 0
    /\ jobs' = [jobs EXCEPT ![PushIndex] = NewSlot(p)]
    /\ job_count' = job_count + 1
    /\ mutex' = NoThread
    /\ admitted' = Append(admitted, pjob[p])
    /\ ppc' = [ppc EXCEPT ![p] = "e_signal"]
    /\ UNCHANGED <<nb_workers, max_jobs, job_first, nb_working, stop>>
    /\ UNCHANGED <<workVars, pjob, pfut, nextJob, ret, outfut, qpc, futVars, cpc, popped, ran>>

\* cnd_signal(&pool->cond); return 0;
E_Signal(p) ==
    /\ ppc[p] = "e_signal"
    /\ wpc' \in CndSignal(wpc, "w_waiting", "w_lock")
    /\ ret' = [ret EXCEPT ![pjob[p]] = 0]
    /\ outfut' = [outfut EXCEPT ![pjob[p]] = pfut[p]]
    /\ ppc' = [ppc EXCEPT ![p] = "idle"]
    /\ pjob' = [pjob EXCEPT ![p] = NoJob]
    /\ pfut' = [pfut EXCEPT ![p] = NoJob]
    /\ UNCHANGED <<poolVars, wjob, wfut, nextJob, qpc, futVars, cpc, histVars>>

\* ------------------------------------------------------------- cpool_wait
Q_Call(q) ==
    /\ qpc[q] = "idle"
    /\ PoolUsable
    /\ qpc' = [qpc EXCEPT ![q] = "pw_lock"]
    /\ UNCHANGED <<poolVars, workVars, prodVars, futVars, cpc, histVars>>

\* mtx_lock(&pool->mutex), and the re-acquisition inside cnd_wait
Q_Lock(q) ==
    /\ qpc[q] = "pw_lock"
    /\ mutex = NoThread
    /\ mutex' = <<"q", q>>
    /\ qpc' = [qpc EXCEPT ![q] = "pw_check"]
    /\ UNCHANGED <<nb_workers, max_jobs, jobs, job_first, job_count, nb_working, stop>>
    /\ UNCHANGED <<workVars, prodVars, futVars, cpc, histVars>>

\* while (nb_working > 0 || job_count > 0) cnd_wait(&pool->cond_idle, &pool->mutex);
Q_Wait(q) ==
    /\ qpc[q] = "pw_check"
    /\ WaitPending
    /\ mutex' = NoThread
    /\ qpc' = [qpc EXCEPT ![q] = "pw_waiting"]
    /\ UNCHANGED <<nb_workers, max_jobs, jobs, job_first, job_count, nb_working, stop>>
    /\ UNCHANGED <<workVars, prodVars, futVars, cpc, histVars>>

\* the loop condition is false: the loop is left with the mutex held
Q_Leave(q) ==
    /\ qpc[q] = "pw_check"
    /\ ~WaitPending
    /\ qpc' = [qpc EXCEPT ![q] = "pw_unlock"]
    /\ UNCHANGED <<poolVars, workVars, prodVars, futVars, cpc, histVars>>

\* mtx_unlock(&pool->mutex); return
Q_Unlock(q) ==
    /\ qpc[q] = "pw_unlock"
    /\ mutex' = NoThread
    /\ qpc' = [qpc EXCEPT ![q] = "pw_done"]
    /\ UNCHANGED <<nb_workers, max_jobs, jobs, job_first, job_count, nb_working, stop>>
    /\ UNCHANGED <<workVars, prodVars, futVars, cpc, histVars>>

\* ------------------------------------------------------ cpool_wait_future
\* The holder of a future handle calls cpool_wait_future, once.
F_Call(j) ==
    /\ fpc[j] = "idle"
    /\ ret[j] = 0 /\ outfut[j] # NoJob
    /\ fpc' = [fpc EXCEPT ![j] = "fw_lock"]
    /\ UNCHANGED <<poolVars, workVars, prodVars, qpc, fstate, fflag, fmutex, cpc, histVars>>

\* mtx_lock(&future->mutex), and the re-acquisition inside cnd_wait
F_Lock(j) ==
    /\ fpc[j] = "fw_lock"
    /\ fmutex[outfut[j]] = NoThread
    /\ fmutex' = [fmutex EXCEPT ![outfut[j]] = <<"f", j>>]
    /\ fpc' = [fpc EXCEPT ![j] = "fw_check"]
    /\ UNCHANGED <<poolVars, workVars, prodVars, qpc, fstate, fflag, cpc, histVars>>

\* while (!future->flag) cnd_wait(&future->cond, &future->mutex);
F_Wait(j) ==
    /\ fpc[j] = "fw_check"
    /\ FutureNotDone(outfut[j])
    /\ fmutex' = [fmutex EXCEPT ![outfut[j]] = NoThread]
    /\ fpc' = [fpc EXCEPT ![j] = "fw_waiting"]
    /\ UNCHANGED <<poolVars, workVars, prodVars, qpc, fstate, fflag, cpc, histVars>>

\* the flag is set: mtx_unlock(&future->mutex)
F_Pass(j) ==
    /\ fpc[j] = "fw_check"
    /\ ~FutureNotDone(outfut[j])
    /\ fmutex' = [fmutex EXCEPT ![outfut[j]] = NoThread]
    /\ fpc' = [fpc EXCEPT ![j] = "fw_destroy"]
    /\ UNCHANGED <<poolVars, workVars, prodVars, qpc, fstate, fflag, cpc, histVars>>

\* cpool_future_destroy(future): cnd_destroy, mtx_destroy, free; return
F_Destroy(j) ==
    /\ fpc[j] = "fw_destroy"
    /\ fstate' = [fstate EXCEPT ![outfut[j]] = "freed"]
    /\ fpc' = [fpc EXCEPT ![j] = "fw_done"]
    /\ UNCHANGED <<poolVars, workVars, prodVars, qpc, fflag, fmutex, cpc, histVars>>

\* ------------------------------------------- cpool_stop and cpool_destroy
\* No client is inside a pool operation (cpool_destroy must not be called
\* concurrently with any other operation on the pool).
ClientsQuiet ==
    /\ \A p \in Producers : ppc[p] = "idle"
    /\ \A q \in PoolWaiters : qpc[q] \in {"idle", "pw_done"}

\* A client calls cpool_stop.
S_Call ==
    /\ cpc = "idle"
    /\ cpc' = "s_lock"
    /\ UNCHANGED <<poolVars, workVars, prodVars, qpc, futVars, histVars>>

\* A client calls cpool_destroy, which starts with cpool_stop(pool).
D_Call ==
    /\ cpc \in {"idle", "stopped"}
    /\ ClientsQuiet
    /\ cpc' = "d_lock"
    /\ UNCHANGED <<poolVars, workVars, prodVars, qpc, futVars, histVars>>

\* cpool_stop: mtx_lock(&pool->mutex)
S_Lock ==
    /\ cpc \in {"s_lock", "d_lock"}
    /\ mutex = NoThread
    /\ mutex' = <<"c">>
    /\ cpc' = IF cpc = "s_lock" THEN "s_set" ELSE "d_set"
    /\ UNCHANGED <<nb_workers, max_jobs, jobs, job_first, job_count, nb_working, stop>>
    /\ UNCHANGED <<workVars, prodVars, qpc, futVars, histVars>>

\* cpool_stop: pool->stop = 1; mtx_unlock(&pool->mutex)
S_Set ==
    /\ cpc \in {"s_set", "d_set"}
    /\ stop' = 1
    /\ mutex' = NoThread
    /\ cpc' = IF cpc = "s_set" THEN "s_bcast" ELSE "d_bcast"
    /\ UNCHANGED <<nb_workers, max_jobs, jobs, job_first, job_count, nb_working>>
    /\ UNCHANGED <<workVars, prodVars, qpc, futVars, histVars>>

\* cpool_stop: cnd_broadcast(&pool->cond)
S_Broadcast ==
    /\ cpc \in {"s_bcast", "d_bcast"}
    /\ wpc' = CndBroadcast(wpc, "w_waiting", "w_lock")
    /\ cpc' = IF cpc = "s_bcast" THEN "s_bcast_enq" ELSE "d_bcast_enq"
    /\ UNCHANGED <<poolVars, wjob, wfut, prodVars, qpc, futVars, histVars>>

\* cpool_stop: cnd_broadcast(&pool->cond_enqueue); return
S_BroadcastEnqueue ==
    /\ cpc \in {"s_bcast_enq", "d_bcast_enq"}
    /\ ppc' = CndBroadcast(ppc, "e_waiting", "e_lock")
    /\ cpc' = IF cpc = "s_bcast_enq" THEN "stopped" ELSE "d_join"
    /\ UNCHANGED <<poolVars, workVars, pjob, pfut, nextJob, ret, outfut, qpc, futVars, histVars>>

\* cpool_destroy: thrd_join of every worker, then the condition variables,
\* the mutex, the ring buffer, the worker array and the pool are released
D_Join ==
    /\ cpc = "d_join"
    /\ \A i \in 1..nb_workers : wpc[i] = "exited"
    /\ cpc' = "destroyed"
    /\ UNCHANGED <<poolVars, workVars, prodVars, qpc, futVars, histVars>>

\* ------------------------------------------------------ spurious wakeups
\* cnd_wait may return without a signal; the thread re-acquires the mutex.
SpuriousWorker(i) ==
    /\ wpc[i] = "w_waiting"
    /\ wpc' = [wpc EXCEPT ![i] = "w_lock"]
    /\ UNCHANGED <<poolVars, wjob, wfut, prodVars, qpc, futVars, cpc, histVars>>

SpuriousProducer(p) ==
    /\ ppc[p] = "e_waiting"
    /\ ppc' = [ppc EXCEPT ![p] = "e_lock"]
    /\ UNCHANGED <<poolVars, workVars, pjob, pfut, nextJob, ret, outfut, qpc, futVars, cpc, histVars>>

SpuriousPoolWaiter(q) ==
    /\ qpc[q] = "pw_waiting"
    /\ qpc' = [qpc EXCEPT ![q] = "pw_lock"]
    /\ UNCHANGED <<poolVars, workVars, prodVars, futVars, cpc, histVars>>

SpuriousFutureWaiter(j) ==
    /\ fpc[j] = "fw_waiting"
    /\ fpc' = [fpc EXCEPT ![j] = "fw_lock"]
    /\ UNCHANGED <<poolVars, workVars, prodVars, qpc, fstate, fflag, fmutex, cpc, histVars>>

\* ------------------------------------------------------------------ Next
WorkerStep(i) ==
    \/ W_Lock(i) \/ W_Wait(i) \/ W_Exit(i) \/ W_Pop(i) \/ W_SignalEnqueue(i)
    \/ W_Run(i) \/ W_FutLock(i) \/ W_FutSet(i) \/ W_FutSignal(i)
    \/ W_DecLock(i) \/ W_Dec(i)

EnqueueStep(p) ==
    E_Lock(p) \/ E_Wait(p) \/ E_Reject(p) \/ E_Push(p) \/ E_Signal(p)

WaitStep(q) ==
    Q_Lock(q) \/ Q_Wait(q) \/ Q_Leave(q) \/ Q_Unlock(q)

FutureWaitStep(j) ==
    F_Lock(j) \/ F_Wait(j) \/ F_Pass(j) \/ F_Destroy(j)

StopStep ==
    S_Lock \/ S_Set \/ S_Broadcast \/ S_BroadcastEnqueue \/ D_Join

\* The queue: workers, producers that ask for no future, stop and destroy.
QueueNext ==
    \/ \E i \in Workers : W_Lock(i)
    \/ \E i \in Workers : W_Wait(i)
    \/ \E i \in Workers : W_Exit(i)
    \/ \E i \in Workers : W_Pop(i)
    \/ \E i \in Workers : W_SignalEnqueue(i)
    \/ \E i \in Workers : W_Run(i)
    \/ \E i \in Workers : W_DecLock(i)
    \/ \E i \in Workers : W_Dec(i)
    \/ \E p \in Producers : E_Call(p)
    \/ \E p \in Producers : E_Lock(p)
    \/ \E p \in Producers : E_Wait(p)
    \/ \E p \in Producers : E_Reject(p)
    \/ \E p \in Producers : E_Push(p)
    \/ \E p \in Producers : E_Signal(p)
    \/ S_Call
    \/ D_Call
    \/ S_Lock
    \/ S_Set
    \/ S_Broadcast
    \/ S_BroadcastEnqueue
    \/ D_Join
    \/ \E i \in Workers : SpuriousWorker(i)
    \/ \E p \in Producers : SpuriousProducer(p)

SpecQueue == Init /\ [][QueueNext]_vars

\* The drain barrier: workers, one producer, the callers of cpool_wait,
\* stop and destroy.
WaitNext ==
    \/ \E i \in Workers : W_Lock(i)
    \/ \E i \in Workers : W_Wait(i)
    \/ \E i \in Workers : W_Exit(i)
    \/ \E i \in Workers : W_Pop(i)
    \/ \E i \in Workers : W_SignalEnqueue(i)
    \/ \E i \in Workers : W_Run(i)
    \/ \E i \in Workers : W_DecLock(i)
    \/ \E i \in Workers : W_Dec(i)
    \/ E_Call("p1")
    \/ E_Lock("p1")
    \/ E_Wait("p1")
    \/ E_Reject("p1")
    \/ E_Push("p1")
    \/ E_Signal("p1")
    \/ \E q \in PoolWaiters : Q_Call(q)
    \/ \E q \in PoolWaiters : Q_Lock(q)
    \/ \E q \in PoolWaiters : Q_Wait(q)
    \/ \E q \in PoolWaiters : Q_Leave(q)
    \/ \E q \in PoolWaiters : Q_Unlock(q)
    \/ S_Call
    \/ D_Call
    \/ S_Lock
    \/ S_Set
    \/ S_Broadcast
    \/ S_BroadcastEnqueue
    \/ D_Join
    \/ \E i \in Workers : SpuriousWorker(i)
    \/ SpuriousProducer("p1")
    \/ \E q \in PoolWaiters : SpuriousPoolWaiter(q)

SpecWait == Init /\ [][WaitNext]_vars

\* Futures: workers, one producer that asks for a future or not, the
\* holders of the future handles, and cpool_stop.
FutureNext ==
    \/ \E i \in Workers : W_Lock(i)
    \/ \E i \in Workers : W_Wait(i)
    \/ \E i \in Workers : W_Exit(i)
    \/ \E i \in Workers : W_Pop(i)
    \/ \E i \in Workers : W_SignalEnqueue(i)
    \/ \E i \in Workers : W_Run(i)
    \/ \E i \in Workers : W_FutLock(i)
    \/ \E i \in Workers : W_FutSet(i)
    \/ \E i \in Workers : W_FutSignal(i)
    \/ \E i \in Workers : W_DecLock(i)
    \/ \E i \in Workers : W_Dec(i)
    \/ E_Call("p1")
    \/ E_CallFuture("p1")
    \/ E_Lock("p1")
    \/ E_Wait("p1")
    \/ E_Reject("p1")
    \/ E_Push("p1")
    \/ E_Signal("p1")
    \/ \E j \in JobIds : F_Call(j)
    \/ \E j \in JobIds : F_Lock(j)
    \/ \E j \in JobIds : F_Wait(j)
    \/ \E j \in JobIds : F_Pass(j)
    \/ \E j \in JobIds : F_Destroy(j)
    \/ S_Call
    \/ S_Lock
    \/ S_Set
    \/ S_Broadcast
    \/ S_BroadcastEnqueue
    \/ \E i \in Workers : SpuriousWorker(i)
    \/ SpuriousProducer("p1")
    \/ \E j \in JobIds : SpuriousFutureWaiter(j)

SpecFuture == Init /\ [][FutureNext]_vars

\* ----------------------------------------------------- fair scheduling
\* A thread inside thread_func or inside a call of the library keeps
\* running, and a thread that asks for a mutex gets it if the mutex is free
\* again and again.  Entering a call is the client's choice and a spurious
\* wakeup is never due, so neither is required to happen.
Fairness ==
    /\ \A i \in Workers : SF_vars(WorkerStep(i))
    /\ \A p \in Producers : SF_vars(EnqueueStep(p))
    /\ \A q \in PoolWaiters : SF_vars(WaitStep(q))
    /\ \A j \in JobIds : SF_vars(FutureWaitStep(j))
    /\ SF_vars(StopStep)

FairWait == SpecWait /\ Fairness

\* Futures and the drain barrier together, on the pool made by
\* cpool_create(1, 1): one worker, one slot, one producer, the holders of
\* the future handles, one caller of cpool_wait, and cpool_stop.
InitSingle == Init /\ nb_workers = 1 /\ max_jobs = 1

DrainNext ==
    \/ FutureNext
    \/ Q_Call("a")
    \/ Q_Lock("a")
    \/ Q_Wait("a")
    \/ Q_Leave("a")
    \/ Q_Unlock("a")
    \/ SpuriousPoolWaiter("a")

SpecDrain == InitSingle /\ [][DrainNext]_vars

FairDrain == SpecDrain /\ Fairness

\* Futures and teardown together, on the pool made by cpool_create(1, 1):
\* the future specification with cpool_destroy.
TeardownNext ==
    \/ FutureNext
    \/ D_Call
    \/ D_Join

SpecTeardown == InitSingle /\ [][TeardownNext]_vars

FairTeardown == SpecTeardown /\ Fairness

\* ----------------------------------------------------------- cpool_create
\* State inside cpool_create when the launch loop is entered: the counters
\* are zero, the mutex and the condition variables are initialised, and no
\* thread has been started.
InitCreate ==
    /\ nb_workers \in 1..MaxWorkers
    /\ max_jobs \in 1..MaxCap
    /\ jobs = [s \in Slots |-> [id |-> NoJob, future |-> NoJob]]
    /\ job_first = 0
    /\ job_count = 0
    /\ nb_working = 0
    /\ stop = 0
    /\ mutex = NoThread
    /\ wpc = [i \in Workers |-> "none"]
    /\ wjob = [i \in Workers |-> NoJob]
    /\ wfut = [i \in Workers |-> NoJob]
    /\ ppc = [p \in Producers |-> "idle"]
    /\ pjob = [p \in Producers |-> NoJob]
    /\ pfut = [p \in Producers |-> NoJob]
    /\ nextJob = 1
    /\ ret = [j \in JobIds |-> NoRet]
    /\ outfut = [j \in JobIds |-> NoJob]
    /\ qpc = [q \in PoolWaiters |-> "idle"]
    /\ fstate = [j \in JobIds |-> "none"]
    /\ fflag = [j \in JobIds |-> 0]
    /\ fmutex = [j \in JobIds |-> NoThread]
    /\ fpc = [j \in JobIds |-> "idle"]
    /\ cpc = "c_launch"
    /\ admitted = <<>>
    /\ popped = <<>>
    /\ ran = [j \in JobIds |-> 0]

\* cpool_create: thread_success_count, the number of threads started
thread_success_count == Cardinality({i \in Workers : wpc[i] # "none"})

\* the last started thread is not joined
JoinedWorkers_ButLast == 1..(thread_success_count - 1)

\* cpool_create: the threads joined by the loop of the failure path
JoinedWorkers == 1..thread_success_count

\* launch loop: thrd_create succeeds and the new thread stands at the top of
\* thread_func, or it fails and the loop is left
C_Launch ==
    /\ cpc = "c_launch"
    /\ thread_success_count < nb_workers
    /\ \/ /\ wpc' = [wpc EXCEPT ![thread_success_count + 1] = "w_lock"]
          /\ cpc' = cpc
       \/ /\ wpc' = wpc
          /\ cpc' = "c_fail_lock"
    /\ UNCHANGED <<poolVars, wjob, wfut, prodVars, qpc, futVars, histVars>>

\* if (thread_success_count == nb_workers) goto end; the pool is returned
C_Done ==
    /\ cpc = "c_launch"
    /\ thread_success_count = nb_workers
    /\ cpc' = "idle"
    /\ UNCHANGED <<poolVars, workVars, prodVars, qpc, futVars, histVars>>

\* failure path: mtx_lock(&pool->mutex)
C_FailLock ==
    /\ cpc = "c_fail_lock"
    /\ mutex = NoThread
    /\ mutex' = <<"c">>
    /\ cpc' = "c_fail_set"
    /\ UNCHANGED <<nb_workers, max_jobs, jobs, job_first, job_count, nb_working, stop>>
    /\ UNCHANGED <<workVars, prodVars, qpc, futVars, histVars>>

\* failure path: pool->stop = 1; mtx_unlock(&pool->mutex)
C_FailSet ==
    /\ cpc = "c_fail_set"
    /\ stop' = 1
    /\ mutex' = NoThread
    /\ cpc' = "c_fail_bcast"
    /\ UNCHANGED <<nb_workers, max_jobs, jobs, job_first, job_count, nb_working>>
    /\ UNCHANGED <<workVars, prodVars, qpc, futVars, histVars>>

\* failure path: cnd_broadcast(&pool->cond)
C_FailBroadcast ==
    /\ cpc = "c_fail_bcast"
    /\ wpc' = CndBroadcast(wpc, "w_waiting", "w_lock")
    /\ cpc' = "c_fail_join"
    /\ UNCHANGED <<poolVars, wjob, wfut, prodVars, qpc, futVars, histVars>>

\* failure path: thrd_join of the started threads
C_FailJoin ==
    /\ cpc = "c_fail_join"
    /\ \A i \in JoinedWorkers : wpc[i] = "exited"
    /\ cpc' = "c_fail_release"
    /\ UNCHANGED <<poolVars, workVars, prodVars, qpc, futVars, histVars>>

\* failure path: the condition variables, the mutex, the ring buffer, the
\* worker array and the pool are released; pool = NULL is returned
C_FailRelease ==
    /\ cpc = "c_fail_release"
    /\ cpc' = "c_failed"
    /\ UNCHANGED <<poolVars, workVars, prodVars, qpc, futVars, histVars>>

CreateStep ==
    \/ C_Done \/ C_FailLock \/ C_FailSet \/ C_FailBroadcast \/ C_FailJoin
    \/ C_FailRelease

\* cpool_create with the threads it starts; no client has the pool yet.
CreateNext ==
    \/ C_Launch
    \/ C_Done
    \/ C_FailLock
    \/ C_FailSet
    \/ C_FailBroadcast
    \/ C_FailJoin
    \/ C_FailRelease
    \/ \E i \in Workers : W_Lock(i)
    \/ \E i \in Workers : W_Wait(i)
    \/ \E i \in Workers : W_Exit(i)
    \/ \E i \in Workers : SpuriousWorker(i)

SpecCreate == InitCreate /\ [][CreateNext]_vars

\* The started threads keep running and cpool_create keeps running; whether
\* thrd_create succeeds is not the scheduler's choice.
FairCreate ==
    /\ SpecCreate
    /\ \A i \in Workers : SF_vars(W_Lock(i) \/ W_Wait(i) \/ W_Exit(i))
    /\ SF_vars(CreateStep)

\* ================================================================ claims
Range(seq) == {seq[k] : k \in 1..Len(seq)}

\* Jobs standing in the ring buffer, front first.
Queued == [k \in 1..job_count |-> jobs[(job_first + k - 1) % max_jobs].id]

\* Workers between taking a job and the decrement after it.
Holding(j) == {i \in Workers : wjob[i] = j}

\* ------------------------------------------------------------------- C2
\* C2: no job is executed more than once and none that was not admitted:
\* every job is popped at most once and by one worker, only admitted jobs
\* are popped and run, a rejected call never runs, and the slots between
\* job_first and job_first + job_count hold exactly the admitted jobs that
\* have not been popped (no queued slot is overwritten).
C2_ExactlyOnce ==
    /\ \A j \in JobIds : ran[j] <= 1
    /\ \A j \in JobIds : Cardinality({k \in 1..Len(popped) : popped[k] = j}) <= 1
    /\ \A j \in JobIds : Cardinality(Holding(j)) <= 1
    /\ Range(popped) \subseteq Range(admitted)
    /\ \A j \in JobIds : ran[j] = 1 => j \in Range(popped)
    /\ \A j \in JobIds : ret[j] = 1 => j \notin Range(admitted) /\ ran[j] = 0
    /\ \A j \in JobIds : ret[j] = 0 => j \in Range(admitted)
    /\ Range(Queued) = Range(admitted) \ Range(popped)
    /\ Cardinality(Range(Queued)) = job_count

\* Three jobs went through a ring buffer of two slots served by two workers.
C2_Witness ==
    /\ nb_workers = 2 /\ max_jobs = 2
    /\ \A j \in 1..3 : ran[j] = 1 /\ ret[j] = 0
    /\ \E i \in Workers : wpc[i] = "w_waiting"

\* ------------------------------------------------------------------- C3
\* C3: jobs leave the queue in the order in which they were inserted: the
\* sequence of popped jobs is a prefix of the sequence of inserted jobs,
\* and the ring buffer holds the rest in insertion order.
C3_Fifo ==
    /\ Len(popped) <= Len(admitted)
    /\ popped = SubSeq(admitted, 1, Len(popped))
    /\ Queued = SubSeq(admitted, Len(popped) + 1, Len(admitted))

\* The indices wrapped around a ring of two slots, with two workers, and the
\* jobs were inserted in another order than their calls were made.
C3_Witness ==
    /\ nb_workers = 2 /\ max_jobs = 2
    /\ Len(popped) = 3
    /\ admitted # <<1, 2, 3>>
    /\ job_first = 1

\* ------------------------------------------------------------------ C10
\* C10: backpressure.  A job is inserted only when job_count < max_jobs; a
\* producer blocked on a full queue has not returned and has inserted
\* nothing, and it finishes its call only from the check it makes while it
\* holds the pool mutex, seeing a free slot or the stop flag.
C10_Backpressure ==
    [][ /\ admitted' # admitted => job_count < max_jobs /\ job_count' <= max_jobs
        /\ \A p \in Producers :
              /\ ppc[p] \in {"e_waiting", "e_lock"} =>
                    /\ ret[pjob[p]] = NoRet /\ pjob[p] \notin Range(admitted)
                    /\ ppc'[p] \in {"e_waiting", "e_lock", "e_check"}
                    /\ ppc'[p] # ppc[p] => UNCHANGED <<jobs, job_first, job_count>>
              /\ (ppc[p] = "e_check" /\ ppc'[p] \in {"e_signal", "idle"}) =>
                    /\ mutex = <<"p", p>>
                    /\ job_count < max_jobs \/ stop # 0 ]_vars

\* A producer is blocked on the full queue of a running pool after at least
\* two jobs have been inserted.
C10_Witness ==
    /\ job_count = max_jobs /\ stop = 0
    /\ \E p \in Producers : ppc[p] = "e_waiting"
    /\ Len(admitted) >= 2

\* ------------------------------------------------------------------- C4
\* C4: a thread that has left the wait loop of cpool_wait and still holds
\* the pool mutex sees job_count = 0 and nb_working = 0; no worker stands
\* between a pop and the decrement after its job, and every job inserted
\* so far (in particular every job whose enqueue returned 0) has run.
C4_WaitDrained ==
    \A q \in PoolWaiters : qpc[q] = "pw_unlock" =>
        /\ mutex = <<"q", q>>
        /\ job_count = 0 /\ nb_working = 0
        /\ \A j \in JobIds : Holding(j) = {}
        /\ \A j \in Range(admitted) : ran[j] = 1
        /\ \A j \in JobIds : ret[j] = 0 => ran[j] = 1

\* A waiter leaves the loop after two workers have run several jobs.
C4_Witness ==
    /\ nb_workers = 2
    /\ Len(popped) >= 2
    /\ \E q \in PoolWaiters : qpc[q] = "pw_unlock"

\* ------------------------------------------------------------------- C7
\* C7: the flag of a future is set, and cpool_wait_future on it gets past
\* its loop, only after the callable of the job the future was created for
\* has returned; a worker sets and signals only the future of the job it
\* has just run.
C7_FutureAfterJob ==
    /\ \A f \in JobIds : fflag[f] = 1 => ran[f] = 1
    /\ \A f \in JobIds : fpc[f] \in {"fw_destroy", "fw_done"} => ran[f] = 1
    /\ \A i \in Workers : wpc[i] \in {"w_fut_lock", "w_fut_set", "w_fut_signal"} =>
            wfut[i] = wjob[i] /\ ran[wjob[i]] = 1

\* One future has been consumed while the waiter of another future is
\* still blocked, its job not run, although other jobs have completed.
C7_Witness ==
    \E f, g \in JobIds :
        /\ f # g
        /\ fpc[f] = "fw_done"
        /\ fpc[g] = "fw_waiting" /\ fflag[g] = 0 /\ ran[g] = 0
        /\ \E h \in JobIds : h # f /\ h # g /\ ran[h] = 1

\* ------------------------------------------------------------------- C9
\* C9: a cpool_enqueue that makes its check under the pool mutex with the
\* stop flag set returns 1 and leaves jobs, job_first and job_count as they
\* are; a call that returned 1 has inserted nothing, its future (if one was
\* created) is destroyed and *future is NULL; a future handle is handed out
\* only for an admitted job.
C9_StoppedRejects ==
    /\ [](\A j \in JobIds :
            /\ ret[j] = 1 => /\ outfut[j] = NoJob
                             /\ fstate[j] # "live"
                             /\ j \notin Range(admitted)
            /\ outfut[j] # NoJob => ret[j] = 0 /\ j \in Range(admitted))
    /\ [][\A p \in Producers :
            (ppc[p] = "e_check" /\ stop # 0 /\ ppc'[p] # ppc[p]) =>
                /\ ppc'[p] = "idle"
                /\ ret'[pjob[p]] = 1
                /\ UNCHANGED <<jobs, job_first, job_count, admitted>>]_vars

\* A call that asked for a future was rejected while a job stood in the
\* queue, and its future was destroyed.
C9_Witness ==
    \E j \in JobIds : ret[j] = 1 /\ fstate[j] = "freed" /\ job_count > 0

\* ------------------------------------------------------------------- C1
\* C1: every job whose cpool_enqueue returned 0 eventually has its
\* callable run to completion.
C1_AdmittedRuns == \A j \in JobIds : (ret[j] = 0) ~> (ran[j] = 1)

\* ------------------------------------------------------------------- C5
\* C5: a single thread inside cpool_wait eventually returns (the clients
\* make finitely many cpool_enqueue calls).
C5_WaitReturns == (qpc["a"] \in {"pw_lock", "pw_check", "pw_waiting", "pw_unlock"})
                      ~> (qpc["a"] = "pw_done")

\* ------------------------------------------------------------------- C6
\* C6: if two threads are blocked in cpool_wait at the same time and the
\* pool is drained from some moment on for good, both eventually return.
Drained == nb_working = 0 /\ job_count = 0

C6_AllWaitersReturn ==
    (<>(\A q \in PoolWaiters : qpc[q] = "pw_waiting") /\ <>[]Drained)
        => <>(\A q \in PoolWaiters : qpc[q] = "pw_done")

\* ------------------------------------------------------------------- C8
\* C8: a call of cpool_wait_future on a handle returned by a successful
\* cpool_enqueue eventually returns.
C8_FutureWaitReturns ==
    \A j \in JobIds : (fpc[j] \in {"fw_lock", "fw_check", "fw_waiting", "fw_destroy"})
                          ~> (fpc[j] = "fw_done")

\* ------------------------------------------------------------------ C11
\* C11: every producer blocked in cpool_enqueue on a full queue eventually
\* returns from its call (the clients make finitely many calls).
C11_BlockedProducerReturns ==
    \A p \in Producers : (ppc[p] = "e_waiting") ~> (ppc[p] = "idle")

\* ------------------------------------------------------------------ C12
\* C12: cpool_destroy, entered while no other pool operation is running,
\* terminates: all workers exit and the joins return.
InDestroy == cpc \in {"d_lock", "d_set", "d_bcast", "d_bcast_enq", "d_join"}

C12_DestroyTerminates ==
    InDestroy ~> (cpc = "destroyed" /\ \A i \in 1..nb_workers : wpc[i] = "exited")

\* ------------------------------------------------------------------ C13
\* C13: when thrd_create fails after k < nb_workers threads were started,
\* cpool_create sets stop, and releases the pool and returns NULL only after
\* all k started threads have exited; a failing call does end that way and
\* never returns a pool.
InCreateFailure ==
    cpc \in {"c_fail_lock", "c_fail_set", "c_fail_bcast", "c_fail_join", "c_fail_release"}

FutureAccess(i) ==
    /\ wpc[i] \in {"w_fut_lock", "w_fut_set", "w_fut_signal"}
    /\ wpc'[i] # wpc[i]

C14_NoUseAfterDestroy ==
    [][\A i \in Workers : FutureAccess(i) => fstate[wfut[i]] = "live"]_vars

\* ------------------------------------------------------------------ C15
\* C15: whenever the pool mutex is free, nb_working is the number of workers
\* that popped a job and have not yet done the decrement after it, and
\* job_count + nb_working is the number of admitted jobs whose worker has
\* not yet done that decrement; so a popped job is counted in nb_working
\* from the moment it leaves job_count.
BusyWorkers == {i \in 1..nb_workers : wjob[i] # NoJob}

Unfinished ==
    {k \in 1..Len(admitted) :
        ~(admitted[k] \in Range(popped) /\ Holding(admitted[k]) = {})}

C15_JobAccounting ==
    mutex = NoThread =>
        /\ nb_working = Cardinality(BusyWorkers)
        /\ job_count + nb_working = Cardinality(Unfinished)
        /\ \A j \in Range(popped) :
               Holding(j) # {} => nb_working >= 1 /\ j \notin Range(Queued)

C15_Witness ==
    /\ mutex = NoThread
    /\ nb_working = 2
    /\ job_count = 1
    /\ Len(popped) = 2
    /\ \E i \in Workers : wpc[i] = "w_signal_enq"

\* ------------------------------------------------------------------ C16
\* C16: always 0 <= nb_working <= nb_workers, 0 <= job_count <= max_jobs and
\* 0 <= job_first < max_jobs (no counter is decremented below zero), and
\* stop, once 1, stays 1.
C16_Bounds ==
    /\ [](/\ 0 <= nb_working /\ nb_working <= nb_workers
          /\ 0 <= job_count /\ job_count <= max_jobs
          /\ 0 <= job_first /\ job_first < max_jobs
          /\ stop \in {0, 1})
    /\ [][stop = 1 => stop' = 1]_vars

C16_Witness ==
    /\ stop = 1
    /\ nb_working = nb_workers
    /\ job_count = max_jobs
    /\ job_first = max_jobs - 1
    /\ max_jobs = 2

\* ------------------------------------------------------------------ C17
\* C17: a worker returns from thread_func only from the check at the top of
\* its loop, holding the pool mutex and seeing stop = 1 and job_count = 0,
\* and with no popped job in hand; once a worker has returned, the queue is
\* empty and stays empty.
Exits(i) == wpc[i] # "exited" /\ wpc'[i] = "exited"

C17_ExitCondition ==
    /\ [][\A i \in Workers :
            Exits(i) => /\ wpc[i] = "w_check"
                        /\ mutex = <<"w", i>>
                        /\ stop = 1
                        /\ job_count = 0
                        /\ wjob[i] = NoJob]_vars
    /\ []((\E i \in Workers : wpc[i] = "exited") =>
            /\ stop = 1
            /\ job_count = 0
            /\ \A i \in Workers : wpc[i] = "exited" => wjob[i] = NoJob)

C17_Witness ==
    /\ \A i \in 1..nb_workers : wpc[i] = "exited"
    /\ nb_workers = 2
    /\ Len(popped) = 2
    /\ \A j \in Range(admitted) : ran[j] = 1
    /\ \E p \in Producers : ppc[p] = "e_check"

\* ------------------------------------------------------------------ C18
\* C18: no thread holds the pool mutex and the mutex of a future at the same
\* time, and the holder of a mutex is never blocked in mtx_lock on another
\* one; so no set of threads waits for each other's mutexes.
Blocked(t) ==
    CASE t[1] = "w" -> wpc[t[2]] \in {"w_lock", "w_fut_lock", "w_dec_lock"}
      [] t[1] = "p" -> ppc[t[2]] = "e_lock"
      [] t[1] = "q" -> qpc[t[2]] = "pw_lock"
      [] t[1] = "f" -> fpc[t[2]] = "fw_lock"
      [] t[1] = "c" -> cpc \in {"s_lock", "d_lock"}

SameThread(t, u) == t[1] = u[1] /\ (t[1] # "c" => t[2] = u[2])

C18_NoNestedLocks ==
    /\ mutex # NoThread => ~Blocked(mutex)
    /\ \A f \in JobIds : fmutex[f] # NoThread =>
           /\ ~Blocked(fmutex[f])
           /\ mutex # NoThread => ~SameThread(fmutex[f], mutex)
           /\ \A g \in JobIds \ {f} :
                  fmutex[g] # NoThread => ~SameThread(fmutex[f], fmutex[g])

C18_Witness ==
    \E i \in Workers :
        /\ wpc[i] = "w_fut_set"
        /\ fmutex[wfut[i]] = <<"w", i>>
        /\ fpc[wfut[i]] = "fw_lock"
        /\ mutex # NoThread
        /\ \E k \in Workers \ {i} : wpc[k] = "w_dec_lock"

\* ------------------------------------------------------------------ C19
\* C19: the worker issues cnd_signal on the future's condition variable
\* while it still holds the future's mutex.
SignalsFuture(i) == wpc[i] = "w_fut_signal" /\ wpc'[i] # wpc[i]

C19_SignalUnderLock ==
    [][\A i \in Workers :
          SignalsFuture(i) => fmutex[wfut[i]] = <<"w", i>>]_vars

\* ------------------------------------------------------------------ C20
\* A worker's decrement after a job wakes a thread blocked in cpool_wait.
IdleWakeup(i) == wpc[i] = "w_dec" /\ wpc'[i] # wpc[i] /\ qpc' # qpc

\* C20 as stated: the worker signals "pool idle" only if its decrement
\* drops nb_working to 0 and job_count = 0; never while jobs are queued.
C20_IdleSignalOnlyIfQueueEmpty ==
    [][\A i \in Workers : IdleWakeup(i) => nb_working' = 0 /\ job_count = 0]_vars

\* C20: the worker signals "pool idle" exactly when its decrement drops
\* nb_working to 0, whether or not jobs are still queued: a thread blocked
\* in cpool_wait is woken then, and only then, by a decrement.
C20_IdleSignalOnLastWorker ==
    [][\A i \in Workers :
          /\ IdleWakeup(i) => nb_working' = 0
          /\ (/\ wpc[i] = "w_dec" /\ wpc'[i] # wpc[i]
              /\ nb_working' = 0
              /\ \E q \in PoolWaiters : qpc[q] = "pw_waiting")
             => \E q \in PoolWaiters :
                    /\ qpc[q] = "pw_waiting"
                    /\ qpc' = [qpc EXCEPT ![q] = "pw_lock"]]_vars

C20_Witness ==
    /\ nb_working = 0
    /\ job_count > 0
    /\ stop = 0
    /\ mutex = NoThread
    /\ Len(popped) >= 1
    /\ \E i \in Workers : wpc[i] = "w_lock" /\ ran[popped[Len(popped)]] = 1
    /\ qpc["a"] = "pw_lock"
    /\ qpc["b"] = "pw_waiting"

====
